---------------------------- MODULE Spec2Model ----------------------------
(***************************************************************************)
(* A model of PythonMonkey's cross-heap liveness bridge (the association   *)
(* table PyTypeToGCThing and the collector callback                        *)
(* handleSharedPythonMonkeyMemory) and of the bytes proxy                  *)
(* (PyBytesProxyHandler and its BytesIterator).                            *)
(***************************************************************************)
EXTENDS Integers, Sequences, FiniteSets, TLC

(***************************************************************************)
(* Bounds of the model.                                                    *)
(***************************************************************************)
\* number of host wrappers (PyType objects) that can exist
MaxWrappers == 2
\* number of GC root handles (JS::PersistentRooted<JS::Value>) that can exist
MaxHandles == 2
\* number of handles the vectors of the table may hold in all
MaxRegistered == 2

Wrappers == 1..MaxWrappers
Handles == 1..MaxHandles

VARIABLES
  PyTypeToGCThing,  \* the table: a function from the memoized wrappers to their handle vectors
  refcnt,           \* ob_refcnt of each wrapper's PyObject
  finalized,        \* PyObject_GC_IsFinalized of each wrapper's PyObject
  deleteCount,      \* how many times `delete` was called on each handle
  pyTypes,          \* the wrappers created so far
  gcThings,         \* the handles created so far
  aborted,          \* the process was ended by the allocator on a double free
  sweepLog,         \* what the run of the callback that just ended did, entry by entry
  lastCall,         \* the name of the last operation of the bridge
  evalPc,           \* where the running eval is: "idle", "Evaluate" (line 108), "StrType" (line 128) or "Memoized" (line 129)
  evalRval,         \* the handle the running eval created (line 107), 0 when none
  returnValue,      \* the wrapper the running eval created (line 128), 0 when none
  evalResult,       \* what the last eval returned to the host
  jsPending,        \* the exception pending on the JSContext after the last failed JS::Evaluate
  resultKind,       \* the category of the value the last successful JS::Evaluate left in rval
  pyErr,            \* the host exception that is set (PyErr_SetString, PyErr_Format)
  self,             \* the wrapped host object (PyObjectSlot): its type name and attributes
  bytesData,        \* the bytes of the array buffer behind the proxy (OtherSlot)
  otherSlot,        \* the PersistentRootedObject in OtherSlot: "live" or "deleted"
  iterators,        \* the BytesIterator objects made so far, with their reserved slots
  iterHist,         \* history: for each iterator the native that made it, the key under which the
                    \* script read that native, the items next() returned
                    \* and how often it returned done=true (counted up to 2)
  lastOp,           \* the last operation on the proxy or on an iterator
  lastResult        \* what that operation returned

gcVars == <<PyTypeToGCThing, refcnt, finalized, deleteCount, pyTypes, gcThings,
            aborted, sweepLog, lastCall>>

evalVars == <<evalPc, evalRval, returnValue, evalResult, jsPending, resultKind>>

proxyVars == <<self, bytesData, otherSlot, iterators, iterHist, lastOp, lastResult>>

vars == <<gcVars, evalVars, pyErr, proxyVars>>

(***************************************************************************)
(* The host exception state.                                               *)
(***************************************************************************)
\* the exception PyErr_SetString and PyErr_Format set: its type and message
PyErr(type, msg) == [type |-> type, msg |-> msg]

NoErr == PyErr("none", "")

(***************************************************************************)
(* Helpers on sequences.                                                   *)
(***************************************************************************)
Range(s) == {s[i] : i \in 1..Len(s)}

\* all the orders in which the elements of S can be visited
Perms(S) == {p \in [1..Cardinality(S) -> S] : \A i, j \in 1..Cardinality(S) : p[i] = p[j] => i = j}

\* the number of handles that the vectors of table T hold in all
RECURSIVE SumLen(_, _)
SumLen(T, S) ==
  IF S = {} THEN 0
  ELSE LET w == CHOOSE x \in S : TRUE IN Len(T[w]) + SumLen(T, S \ {w})

Registered(T) == SumLen(T, DOMAIN T)

\* f without the key k
Erase(f, k) == [x \in (DOMAIN f) \ {k} |-> f[x]]

(***************************************************************************)
(* handleSharedPythonMonkeyMemory                                          *)
(***************************************************************************)
\* a variant of HostUnreachable whose count test is off by one
HostUnreachable_OffByOne(w) == finalized[w] \/ refcnt[w] <= 2

\* line 30: the wrapper is finalized or the bridge holds its only reference
HostUnreachable(w) == finalized[w] \/ refcnt[w] = 1

\* a variant of FoundElsewhere without the test innerPyIt != pyIt
FoundElsewhere_NoSelfSkip(T, w, rval) == \E v \in DOMAIN T : rval \in Range(T[v])

\* lines 32-38: some other entry of the table T also lists rval
FoundElsewhere(T, w, rval) == \E v \in (DOMAIN T) \ {w} : rval \in Range(T[v])

\* a variant of ReleaseLoop with the test of line 40 inverted: `if (found)`
RECURSIVE ReleaseLoop_Inverted(_, _, _, _, _, _)
ReleaseLoop_Inverted(T, D, w, j, rel, abortOnUB) ==
  IF j > Len(T[w]) THEN [del |-> D, released |-> rel, aborted |-> FALSE]
  ELSE LET rval == T[w][j] IN
       IF ~FoundElsewhere(T, w, rval)
       THEN ReleaseLoop_Inverted(T, D, w, j + 1, rel, abortOnUB)
       ELSE LET D2 == [D EXCEPT ![rval] = @ + 1] IN
            IF D[rval] >= 1 /\ abortOnUB
            THEN [del |-> D2, released |-> Append(rel, rval), aborted |-> TRUE]
            ELSE ReleaseLoop_Inverted(T, D2, w, j + 1, Append(rel, rval), abortOnUB)

\* lines 31-43: the loop over the handles of entry w, from position j on.
\* D counts the deletes, rel lists the handles deleted for this entry.  A
\* second delete of a handle is undefined behaviour: with abortOnUB the
\* allocator ends the process at that call, otherwise the run goes on.
RECURSIVE ReleaseLoop(_, _, _, _, _, _)
ReleaseLoop(T, D, w, j, rel, abortOnUB) ==
  IF j > Len(T[w]) THEN [del |-> D, released |-> rel, aborted |-> FALSE]
  ELSE LET rval == T[w][j] IN
       IF FoundElsewhere(T, w, rval)
       THEN ReleaseLoop(T, D, w, j + 1, rel, abortOnUB)
       ELSE LET D2 == [D EXCEPT ![rval] = @ + 1] IN
            IF D[rval] >= 1 /\ abortOnUB
            THEN [del |-> D2, released |-> Append(rel, rval), aborted |-> TRUE]
            ELSE ReleaseLoop(T, D2, w, j + 1, Append(rel, rval), abortOnUB)

\* what the log keeps of one visit of the scan (lines 27-48): the entry, the
\* test of line 30, whether line 44 erased it, and the deletes of line 41
Visit(T, w, unreachable, erased, released) ==
  [wrapper |-> w, handles |-> T[w], unreachable |-> unreachable,
   erased |-> erased, released |-> released]

\* a variant of Scan that steps the iterator once more after erase(pyIt),
\* so that the entry that follows an erased one is not visited
RECURSIVE Scan_SkipAfterErase(_, _, _, _, _, _)
Scan_SkipAfterErase(order, i, T, D, log, abortOnUB) ==
  IF i > Len(order) THEN [table |-> T, del |-> D, log |-> log, aborted |-> FALSE]
  ELSE LET w == order[i] IN
       IF HostUnreachable(w)
       THEN LET r == ReleaseLoop(T, D, w, 1, <<>>, abortOnUB) IN
            IF r.aborted
            THEN [table |-> T, del |-> r.del, aborted |-> TRUE,
                  log |-> Append(log, Visit(T, w, TRUE, FALSE, r.released))]
            ELSE Scan_SkipAfterErase(order, i + 2, Erase(T, w), r.del,
                      Append(log, Visit(T, w, TRUE, TRUE, r.released)), abortOnUB)
       ELSE Scan_SkipAfterErase(order, i + 1, T, D,
                      Append(log, Visit(T, w, FALSE, FALSE, <<>>)), abortOnUB)

\* a variant of Scan that steps on with pyIt++ where line 44 erases, so that
\* a retired entry stays in the table
RECURSIVE Scan_NoErase(_, _, _, _, _, _)
Scan_NoErase(order, i, T, D, log, abortOnUB) ==
  IF i > Len(order) THEN [table |-> T, del |-> D, log |-> log, aborted |-> FALSE]
  ELSE LET w == order[i] IN
       IF HostUnreachable(w)
       THEN LET r == ReleaseLoop(T, D, w, 1, <<>>, abortOnUB) IN
            IF r.aborted
            THEN [table |-> T, del |-> r.del, aborted |-> TRUE,
                  log |-> Append(log, Visit(T, w, TRUE, FALSE, r.released))]
            ELSE Scan_NoErase(order, i + 1, T, r.del,
                      Append(log, Visit(T, w, TRUE, FALSE, r.released)), abortOnUB)
       ELSE Scan_NoErase(order, i + 1, T, D,
                      Append(log, Visit(T, w, FALSE, FALSE, <<>>)), abortOnUB)

\* lines 26-49: the scan of the table in the map's iteration order, from
\* position i on; erase(pyIt) keeps the order of the entries that stay.
RECURSIVE Scan(_, _, _, _, _, _)
Scan(order, i, T, D, log, abortOnUB) ==
  IF i > Len(order) THEN [table |-> T, del |-> D, log |-> log, aborted |-> FALSE]
  ELSE LET w == order[i] IN
       IF HostUnreachable(w)
       THEN LET r == ReleaseLoop(T, D, w, 1, <<>>, abortOnUB) IN
            IF r.aborted
            THEN [table |-> T, del |-> r.del, aborted |-> TRUE,
                  log |-> Append(log, Visit(T, w, TRUE, FALSE, r.released))]
            ELSE Scan(order, i + 1, Erase(T, w), r.del,
                      Append(log, Visit(T, w, TRUE, TRUE, r.released)), abortOnUB)
       ELSE Scan(order, i + 1, T, D, Append(log, Visit(T, w, FALSE, FALSE, <<>>)), abortOnUB)

\* a callback without the test of line 25: it scans on either status
HookResult_AnyStatus(status, order, T, D, abortOnUB) ==
  Scan(order, 1, T, D, <<>>, abortOnUB)

\* lines 24-51: the callback, as a function of the status it is given
HookResult(status, order, T, D, abortOnUB) ==
  IF status = "JSGC_BEGIN"
  THEN Scan(order, 1, T, D, <<>>, abortOnUB)
  ELSE [table |-> T, del |-> D, log |-> <<>>, aborted |-> FALSE]

\* the engine invokes the registered callback with a status
handleSharedPythonMonkeyMemory(status) ==
  /\ ~aborted
  /\ \E order \in Perms(DOMAIN PyTypeToGCThing), abortOnUB \in BOOLEAN :
       LET r == HookResult(status, order, PyTypeToGCThing, deleteCount, abortOnUB) IN
       /\ PyTypeToGCThing' = r.table
       /\ deleteCount' = r.del
       /\ sweepLog' = r.log
       /\ aborted' = r.aborted
       /\ lastCall' = status
  /\ UNCHANGED <<refcnt, finalized, pyTypes, gcThings>>

(***************************************************************************)
(* memoizePyTypeAndGCThing                                                 *)
(***************************************************************************)
\* lines 59-70: the table after memoizePyTypeAndGCThing(pyType, GCThing)
\* a register that replaces the handles already listed
Memoized_Replaces(T, pyType, GCThing) ==
  [x \in (DOMAIN T) \cup {pyType} |-> IF x = pyType THEN <<GCThing>> ELSE T[x]]

Memoized(T, pyType, GCThing) ==
  IF pyType \notin DOMAIN T
  THEN [x \in (DOMAIN T) \cup {pyType} |-> IF x = pyType THEN <<GCThing>> ELSE T[x]]
  ELSE [T EXCEPT ![pyType] = Append(@, GCThing)]

\* a caller registers a live handle for a wrapper
memoizePyTypeAndGCThing(pyType, GCThing) ==
  /\ ~aborted
  /\ pyType \in pyTypes
  /\ GCThing \in gcThings
  /\ deleteCount[GCThing] = 0
  /\ Registered(PyTypeToGCThing) < MaxRegistered
  /\ PyTypeToGCThing' = Memoized(PyTypeToGCThing, pyType, GCThing)
  /\ lastCall' = "other"
  /\ sweepLog' = <<>>
  /\ UNCHANGED <<refcnt, finalized, deleteCount, pyTypes, gcThings, aborted>>

(***************************************************************************)
(* The host drops its references to a wrapper's PyObject, and its own      *)
(* collector finalizes the object.                                         *)
(***************************************************************************)
\* the bridge keeps its own reference, so the count never falls under 1
HostDecref(w) ==
  /\ ~aborted
  /\ w \in pyTypes
  /\ refcnt[w] > 1
  /\ refcnt' = [refcnt EXCEPT ![w] = @ - 1]
  /\ lastCall' = "other"
  /\ sweepLog' = <<>>
  /\ UNCHANGED <<PyTypeToGCThing, finalized, deleteCount, pyTypes, gcThings, aborted>>

HostFinalize(w) ==
  /\ ~aborted
  /\ w \in pyTypes
  /\ ~finalized[w]
  /\ finalized' = [finalized EXCEPT ![w] = TRUE]
  /\ lastCall' = "other"
  /\ sweepLog' = <<>>
  /\ UNCHANGED <<PyTypeToGCThing, refcnt, deleteCount, pyTypes, gcThings, aborted>>

(***************************************************************************)
(* The bytes proxy: JS values, property keys and the wrapped host object.  *)
(***************************************************************************)
\* bound: the longest buffer behind the proxy
MaxLen == 2
\* bound: the number of BytesIterator objects that can be made
MaxIters == 1

\* the values a byte of the buffer takes in the model (uint8_t)
ByteVals == {0, 20, 255}

\* the buffers behind the proxy: every byte sequence up to MaxLen
RECURSIVE SeqsUpTo(_, _)
SeqsUpTo(S, n) ==
  IF n = 0 THEN {<<>>}
  ELSE LET shorter == SeqsUpTo(S, n - 1) IN
         shorter \cup {Append(s, b) : s \in {t \in shorter : Len(t) = n - 1}, b \in S}

Buffers == SeqsUpTo(ByteVals, MaxLen)

\* data[index] of the C code, for an index inside the buffer
At(data, index) == data[index + 1]

\* a JS::Value: its type tag and the payload of that type
JSValue(t, n, s, a) == [t |-> t, n |-> n, s |-> s, a |-> a]
UndefinedValue == JSValue("undefined", 0, "", <<>>)
Int32Value(n) == JSValue("int32", n, "", <<>>)
StringValue(s) == JSValue("string", 0, s, <<>>)
\* an object value: a native function, the array buffer, a constructor or an iterator
ObjectValue(what, n) == JSValue("object", n, what, <<>>)
\* JS::NewArrayObject over a ValueArray of int32 values
ArrayValue(items) == JSValue("array", 0, "", items)

\* a property key (JS::HandleId): a string, an integer or a symbol
StrKey(s) == [t |-> "str", s |-> s, i |-> 0]
IntKey(i) == [t |-> "int", s |-> "", i |-> i]
SymKey(s) == [t |-> "sym", s |-> s, i |-> 0]

\* lines 62-64
ITEM_KIND_KEY == 0
ITEM_KIND_VALUE == 1
ITEM_KIND_KEY_AND_VALUE == 2

\* lines 235-242: the method table, in its order
array_methods ==
  << [name |-> "toString", call |-> "array_toString"],
     [name |-> "valueOf",  call |-> "array_valueOf"],
     [name |-> "entries",  call |-> "array_entries"],
     [name |-> "keys",     call |-> "array_keys"],
     [name |-> "values",   call |-> "array_values"] >>

MethodNames == {array_methods[k].name : k \in 1..Len(array_methods)}

\* lines 291-361: the names the handler answers itself
SyntheticNames ==
  {"length", "byteLength", "buffer", "BYTES_PER_ELEMENT", "byteOffset", "constructor"}

\* a type name longer than the 100 characters PyErr_Format prints of it
LongTypeName ==
  "BytesSubclassWithAVeryLongTypeName_0123456789_0123456789_0123456789_0123456789_0123456789_0123456789_0123456789"

\* the host objects a proxy wraps: a bytes object, and an object of a
\* subclass of bytes whose attributes shadow names of the proxy
HostObjects ==
  { [tp_name |-> "bytes", attrs |-> {"decode"}],
    [tp_name |-> LongTypeName, attrs |-> {"decode", "length", "keys", "toString", "buffer"}] }

\* the keys a script reads
ReadKeys ==
  {StrKey(s) : s \in MethodNames \cup SyntheticNames \cup {"decode", "nosuch"}}
    \cup {SymKey(s) : s \in {"iterator", "toStringTag"}}
    \cup {IntKey(i) : i \in 0..(MaxLen + 1)}

\* the keys a script writes: one of every kind
WriteKeys ==
  {IntKey(0), IntKey(MaxLen + 1), StrKey("length"), StrKey("keys"),
   SymKey("iterator"), StrKey("nosuch")}

\* the state of the proxy's variables where no proxy exists
NoObject == [tp_name |-> "", attrs |-> {}]
NoKey == StrKey("")
NoOp == [op |-> "none", id |-> NoKey, it |-> 0, fn |-> ""]
NoResult == [ok |-> TRUE]

NoProxy ==
  /\ self = NoObject
  /\ bytesData = <<>>
  /\ otherSlot = "none"
  /\ iterators = <<>>
  /\ iterHist = <<>>
  /\ lastOp = NoOp
  /\ lastResult = NoResult

(***************************************************************************)
(* PyBytesProxyHandler::getOwnPropertyDescriptor, lines 260-408.           *)
(***************************************************************************)
\* mozilla::Nothing and mozilla::Some(JS::PropertyDescriptor::Data(value, attrs))
Nothing == [some |-> FALSE, value |-> UndefinedValue, enumerable |-> FALSE]
Some(value, enumerable) == [some |-> TRUE, value |-> value, enumerable |-> enumerable]

\* what the handler returns: its bool, the descriptor, the step that
\* answered, and whether it read the buffer outside its bounds
Descriptor(desc, by, oob) == [ok |-> TRUE, desc |-> desc, by |-> by, oob |-> oob]

\* JS_NewFunction over a native, as an object value
FunctionValue(call) == ObjectValue(call, 0)

\* lines 265-285: the first entry of array_methods from index k on whose name is id
RECURSIVE MethodLookup(_, _)
MethodLookup(id, k) ==
  IF k > Len(array_methods) THEN 0
  ELSE IF id.s = array_methods[k].name THEN k
  ELSE MethodLookup(id, k + 1)

\* synthetic properties where length is the last index and byteOffset is 1
SyntheticValue_LastIndex(name, data) ==
  CASE name = "length" -> Some(Int32Value(Len(data) - 1), FALSE)
    [] name = "byteLength" -> Some(Int32Value(Len(data)), FALSE)
    [] name = "buffer" -> Some(ObjectValue("arrayBuffer", 0), FALSE)
    [] name = "BYTES_PER_ELEMENT" -> Some(Int32Value(1), FALSE)
    [] name = "byteOffset" -> Some(Int32Value(1), FALSE)
    [] name = "constructor" -> Some(ObjectValue("Uint8Array", 0), TRUE)

\* lines 287-363: the value of a synthetic property
SyntheticValue(name, data) ==
  CASE name \in {"length", "byteLength"} -> Some(Int32Value(Len(data)), FALSE)
    [] name = "buffer" -> Some(ObjectValue("arrayBuffer", 0), FALSE)
    [] name = "BYTES_PER_ELEMENT" -> Some(Int32Value(1), FALSE)
    [] name = "byteOffset" -> Some(Int32Value(0), FALSE)
    [] name = "constructor" -> Some(ObjectValue("Uint8Array", 0), TRUE)

\* idToIndex(cx, id, &index): the key is an integer index; the function is
\* not given the buffer, so it cannot compare the index with the length
idToIndex(id) == id.t = "int"

\* lines 403-407: PyObject_GetAttr on the wrapped object and the
\* descriptor handleGetOwnPropertyDescriptor makes of the attribute
HostAttribute(obj, id) ==
  IF id.t = "str" /\ id.s \in obj.attrs
  THEN Some(ObjectValue("attribute", 0), TRUE)
  ELSE Nothing

\* the handler with the host attribute lookup moved to the front
getOwnPropertyDescriptor_AttrFirst(obj, data, id, garbage) ==
  IF HostAttribute(obj, id).some THEN Descriptor(HostAttribute(obj, id), "attr", FALSE)
  ELSE IF id.t = "str" /\ MethodLookup(id, 1) # 0
  THEN Descriptor(Some(FunctionValue(array_methods[MethodLookup(id, 1)].call), TRUE), "method", FALSE)
  ELSE IF id.t = "str" /\ id.s \in SyntheticNames
  THEN Descriptor(SyntheticValue(id.s, data), "synthetic", FALSE)
  ELSE IF id.t = "sym"
  THEN Descriptor(IF id.s = "iterator" THEN Some(FunctionValue("array_values"), TRUE) ELSE Nothing,
                  "symbol", FALSE)
  ELSE IF idToIndex(id) /\ id.i < Len(data)
  THEN Descriptor(Some(Int32Value(At(data, id.i)), FALSE), "index", FALSE)
  ELSE Descriptor(Nothing, "attr", FALSE)

\* the handler with array_keys behind the iterator symbol
getOwnPropertyDescriptor_SymbolKeys(obj, data, id, garbage) ==
  IF id.t = "str" /\ MethodLookup(id, 1) # 0
  THEN Descriptor(Some(FunctionValue(array_methods[MethodLookup(id, 1)].call), TRUE), "method", FALSE)
  ELSE IF id.t = "str" /\ id.s \in SyntheticNames
  THEN Descriptor(SyntheticValue(id.s, data), "synthetic", FALSE)
  ELSE IF id.t = "sym"
  THEN Descriptor(IF id.s = "iterator" THEN Some(FunctionValue("array_keys"), TRUE) ELSE Nothing,
                  "symbol", FALSE)
  ELSE IF idToIndex(id)
  THEN IF id.i < Len(data)
       THEN Descriptor(Some(Int32Value(At(data, id.i)), FALSE), "index", FALSE)
       ELSE Descriptor(Some(Int32Value(garbage), FALSE), "index", TRUE)
  ELSE Descriptor(HostAttribute(obj, id), "attr", FALSE)

\* the handler without the `return true` of line 381: a symbol that is not
\* the iterator symbol goes on to the index and attribute steps
getOwnPropertyDescriptor_SymbolFallsThrough(obj, data, id, garbage) ==
  IF id.t = "str" /\ MethodLookup(id, 1) # 0
  THEN Descriptor(Some(FunctionValue(array_methods[MethodLookup(id, 1)].call), TRUE), "method", FALSE)
  ELSE IF id.t = "str" /\ id.s \in SyntheticNames
  THEN Descriptor(SyntheticValue(id.s, data), "synthetic", FALSE)
  ELSE IF id.t = "sym" /\ id.s = "iterator"
  THEN Descriptor(Some(FunctionValue("array_values"), TRUE), "symbol", FALSE)
  ELSE IF idToIndex(id)
  THEN IF id.i < Len(data)
       THEN Descriptor(Some(Int32Value(At(data, id.i)), FALSE), "index", FALSE)
       ELSE Descriptor(Some(Int32Value(garbage), FALSE), "index", TRUE)
  ELSE Descriptor(HostAttribute(obj, id), "attr", FALSE)

\* lines 260-408. garbage is what a read of data[index] past the end of
\* the buffer finds there
getOwnPropertyDescriptor(obj, data, id, garbage) ==
  \* lines 265-285: a method of array_methods
  IF id.t = "str" /\ MethodLookup(id, 1) # 0
  THEN Descriptor(Some(FunctionValue(array_methods[MethodLookup(id, 1)].call), TRUE), "method", FALSE)
  \* lines 287-363: a synthetic property
  ELSE IF id.t = "str" /\ id.s \in SyntheticNames
  THEN Descriptor(SyntheticValue(id.s, data), "synthetic", FALSE)
  \* lines 365-382: a symbol; only the iterator symbol has a descriptor
  ELSE IF id.t = "sym"
  THEN Descriptor(IF id.s = "iterator" THEN Some(FunctionValue("array_values"), TRUE) ELSE Nothing,
                  "symbol", FALSE)
  \* lines 384-401: an index; data[index] is read whatever the length is
  ELSE IF idToIndex(id)
  THEN IF id.i < Len(data)
       THEN Descriptor(Some(Int32Value(At(data, id.i)), FALSE), "index", FALSE)
       ELSE Descriptor(Some(Int32Value(garbage), FALSE), "index", TRUE)
  \* lines 403-407: the attribute of the wrapped object
  ELSE Descriptor(HostAttribute(obj, id), "attr", FALSE)

(***************************************************************************)
(* PyBytesProxyHandler::set, lines 245-258.                                *)
(***************************************************************************)
\* the conversion %.100s: at most the first 100 characters of s
Precision100(s) == IF Len(s) <= 100 THEN s ELSE SubSeq(s, 1, 100)

\* the message PyErr_Format makes of the format of line 254
ReadOnlyMessage(tp_name) ==
  "'" \o Precision100(tp_name) \o "' object has only read-only attributes"

\* a handler that stores the byte when the key is an index of the buffer
set_StoresByte(obj, data, id, v) ==
  [ok |-> TRUE, code |-> "JSMSG_READ_ONLY",
   err |-> PyErr("TypeError", ReadOnlyMessage(obj.tp_name)),
   data |-> IF id.t = "int" /\ id.i < Len(data) THEN [data EXCEPT ![id.i + 1] = v] ELSE data]

\* lines 245-258: the exception that is set, the ObjectOpResult
\* (failReadOnly) with the bool it returns, and the buffer afterwards
set(obj, data, id, v) ==
  [ok |-> TRUE, code |-> "JSMSG_READ_ONLY",
   err |-> PyErr("TypeError", ReadOnlyMessage(obj.tp_name)),
   data |-> data]

(***************************************************************************)
(* The natives of array_methods and the BytesIterator, lines 23-232.       *)
(***************************************************************************)
\* std::to_string of a byte: its decimal digits
RECURSIVE to_string(_)
to_string(n) ==
  IF n < 10 THEN SubSeq("0123456789", n + 1, n + 1)
  ELSE to_string(n \div 10) \o SubSeq("0123456789", (n % 10) + 1, (n % 10) + 1)

\* a loop that puts the comma after every byte
RECURSIVE valueOfString_TrailingComma(_, _)
valueOfString_TrailingComma(data, index) ==
  IF index >= Len(data) THEN ""
  ELSE to_string(At(data, index)) \o "," \o valueOfString_TrailingComma(data, index + 1)

\* lines 44-50: the loop of array_valueOf from index on
RECURSIVE valueOfString(_, _)
valueOfString(data, index) ==
  IF index >= Len(data) THEN ""
  ELSE (IF index > 0 THEN "," ELSE "") \o to_string(At(data, index))
       \o valueOfString(data, index + 1)

\* lines 23-52
array_valueOf(data) == StringValue(valueOfString(data, 0))

\* lines 54-56
array_toString(data) == array_valueOf(data)

\* lines 183-220: the reserved slots of the new BytesIterator
array_iterator_func(itemKind) ==
  [iteratedObject |-> "OtherSlot", nextIndex |-> 0, itemKind |-> itemKind]

\* lines 222-232
array_entries == array_iterator_func(ITEM_KIND_KEY_AND_VALUE)
array_keys == array_iterator_func(ITEM_KIND_KEY)
array_values == array_iterator_func(ITEM_KIND_VALUE)

\* what next() returns: its bool and the result object
IterResult(done, hasValue, value) ==
  [ok |-> TRUE, done |-> done, hasValue |-> hasValue, value |-> value]

\* next() that does not store the advanced cursor
iterator_next_NoAdvance(slots, data) ==
  IF slots.nextIndex >= Len(data)
  THEN [slots |-> slots, result |-> IterResult(TRUE, FALSE, UndefinedValue)]
  ELSE [slots |-> slots,
        result |-> IterResult(FALSE, TRUE, Int32Value(slots.nextIndex))]

\* next() that rewinds the cursor when it reports the end
iterator_next_Rewinds(slots, data) ==
  IF slots.nextIndex >= Len(data)
  THEN [slots |-> [slots EXCEPT !.nextIndex = 0],
        result |-> IterResult(TRUE, FALSE, UndefinedValue)]
  ELSE [slots |-> [slots EXCEPT !.nextIndex = slots.nextIndex + 1],
        result |-> IterResult(FALSE, TRUE, Int32Value(slots.nextIndex))]

\* next() that steps the cursor over two indexes
iterator_next_SkipsOne(slots, data) ==
  IF slots.nextIndex >= Len(data)
  THEN [slots |-> slots, result |-> IterResult(TRUE, FALSE, UndefinedValue)]
  ELSE [slots |-> [slots EXCEPT !.nextIndex = slots.nextIndex + 2],
        result |-> IterResult(FALSE, TRUE, Int32Value(slots.nextIndex))]

\* lines 75-140: the slots after the call and the result
iterator_next(slots, data) ==
  LET nextIndex == slots.nextIndex
      itemKind == slots.itemKind
      len == Len(data)
  IN
  \* lines 94-99
  IF nextIndex >= len
  THEN [slots |-> slots, result |-> IterResult(TRUE, FALSE, UndefinedValue)]
  \* lines 102-139
  ELSE [slots |-> [slots EXCEPT !.nextIndex = nextIndex + 1],
        result |->
          IF itemKind = ITEM_KIND_VALUE
          THEN IterResult(FALSE, TRUE, Int32Value(At(data, nextIndex)))
          ELSE IF itemKind = ITEM_KIND_KEY_AND_VALUE
          THEN IterResult(FALSE, TRUE, ArrayValue(<<nextIndex, At(data, nextIndex)>>))
          ELSE IterResult(FALSE, TRUE, Int32Value(nextIndex))]

(***************************************************************************)
(* The operations of a script on the proxy and on its iterators.           *)
(***************************************************************************)
\* the variables of the bridge that no operation on the proxy writes
bridgeRest == <<PyTypeToGCThing, refcnt, finalized, deleteCount, pyTypes, gcThings,
                sweepLog, lastCall, evalVars>>

Op(op, id, it, fn) == [op |-> op, id |-> id, it |-> it, fn |-> fn]

\* a script reads proxy[id]. A read past the end of the buffer is undefined
\* behaviour: it finds some byte there, or the process is ended by the fault
ProxyGet(id) ==
  /\ ~aborted
  /\ \E garbage \in ByteVals, fault \in BOOLEAN :
       LET r == getOwnPropertyDescriptor(self, bytesData, id, garbage) IN
         /\ lastResult' = r
         /\ aborted' = (r.oob /\ fault)
  /\ lastOp' = Op("get", id, 0, "")
  /\ UNCHANGED <<bridgeRest, pyErr, self, bytesData, otherSlot, iterators, iterHist>>

\* a script writes proxy[id] = v
ProxySet(id, v) ==
  /\ ~aborted
  /\ LET r == set(self, bytesData, id, v) IN
       /\ pyErr' = r.err
       /\ bytesData' = r.data
       /\ lastResult' = [ok |-> r.ok, code |-> r.code]
  /\ lastOp' = Op("set", id, 0, "")
  /\ UNCHANGED <<bridgeRest, aborted, self, otherSlot, iterators, iterHist>>

\* a script calls proxy.toString() or proxy.valueOf()
CallStringMethod(fn) ==
  /\ ~aborted
  /\ lastResult' = [ok |-> TRUE,
                    value |-> IF fn = "array_toString" THEN array_toString(bytesData)
                              ELSE array_valueOf(bytesData)]
  /\ lastOp' = Op("call", NoKey, 0, fn)
  /\ UNCHANGED <<bridgeRest, aborted, pyErr, self, bytesData, otherSlot, iterators, iterHist>>

\* a script calls proxy.entries(), proxy.keys(), proxy.values() or
\* proxy[Symbol.iterator](), which is array_values as well
MakeIterator(fn, most) ==
  /\ ~aborted
  /\ Len(iterators) < most
  /\ iterators' = Append(iterators,
                         CASE fn = "array_entries" -> array_entries
                           [] fn = "array_keys" -> array_keys
                           [] fn = "array_values" -> array_values)
  \* the script got the function by a read of the key via
  /\ \E via \in {id \in ReadKeys : id.t # "int"} :
       /\ getOwnPropertyDescriptor(self, bytesData, via, 0).desc.value = FunctionValue(fn)
       /\ iterHist' = Append(iterHist, [mode |-> fn, via |-> via, yielded |-> <<>>, dones |-> 0])
  /\ lastResult' = [ok |-> TRUE, value |-> ObjectValue("BytesIterator", Len(iterators) + 1)]
  /\ lastOp' = Op("call", NoKey, Len(iterators) + 1, fn)
  /\ UNCHANGED <<bridgeRest, aborted, pyErr, self, bytesData, otherSlot>>

\* the call while fewer than MaxIters iterators have been made
CallIteratorMethod(fn) == MakeIterator(fn, MaxIters)


\* a next() whose cursor is kept in one place for all iterators
IteratorNext_SharedCursor(it) ==
  /\ ~aborted
  /\ it \in 1..Len(iterators)
  /\ LET r == iterator_next(iterators[it], bytesData) IN
       /\ iterators' = [k \in 1..Len(iterators) |->
                          [iterators[k] EXCEPT !.nextIndex = r.slots.nextIndex]]
       /\ iterHist' = [iterHist EXCEPT
            ![it].yielded = IF r.result.done THEN @ ELSE Append(@, r.result.value),
            ![it].dones = IF r.result.done /\ @ < 2 THEN @ + 1 ELSE @]
       /\ lastResult' = r.result
  /\ lastOp' = Op("next", NoKey, it, "")
  /\ UNCHANGED <<bridgeRest, aborted, pyErr, self, bytesData, otherSlot>>

\* a script calls next() on the iterator it
IteratorNext(it) ==
  /\ ~aborted
  /\ it \in 1..Len(iterators)
  /\ LET r == iterator_next(iterators[it], bytesData) IN
       /\ iterators' = [iterators EXCEPT ![it] = r.slots]
       /\ iterHist' = [iterHist EXCEPT
            ![it].yielded = IF r.result.done THEN @ ELSE Append(@, r.result.value),
            ![it].dones = IF r.result.done /\ @ < 2 THEN @ + 1 ELSE @]
       /\ lastResult' = r.result
  /\ lastOp' = Op("next", NoKey, it, "")
  /\ UNCHANGED <<bridgeRest, aborted, pyErr, self, bytesData, otherSlot>>

(***************************************************************************)
(* PyBytesProxyHandler::finalize, lines 410-415, and what an iterator      *)
(* that outlives the proxy does.                                           *)
(***************************************************************************)
\* a finalizer that releases the bytes of the buffer as well
finalize_FreesBuffer ==
  /\ ~aborted
  /\ otherSlot = "live"
  /\ otherSlot' = "deleted"
  /\ bytesData' = <<>>
  /\ lastOp' = Op("finalize", NoKey, 0, "")
  /\ lastResult' = NoResult
  /\ UNCHANGED <<bridgeRest, aborted, pyErr, self, iterators, iterHist>>

\* lines 410-415: the collector finalizes the proxy: the base finalizer
\* drops the bridge's bookkeeping for the wrapped object, then the
\* PersistentRootedObject of OtherSlot is deleted
finalize ==
  /\ ~aborted
  /\ otherSlot = "live"
  /\ otherSlot' = "deleted"
  /\ lastOp' = Op("finalize", NoKey, 0, "")
  /\ lastResult' = NoResult
  /\ UNCHANGED <<bridgeRest, aborted, pyErr, self, bytesData, iterators, iterHist>>

\* lines 75-140 after finalize: the iterator's slot still holds the pointer
\* that finalize deleted, and next() reads through it (lines 79-92). The
\* read is undefined behaviour: the process faults, or next() runs on
\* whatever buffer the freed memory appears to name, the old one included
IteratorNextDangling(it) ==
  /\ ~aborted
  /\ otherSlot = "deleted"
  /\ it \in 1..Len(iterators)
  /\ \E fault \in BOOLEAN, seen \in Buffers :
       LET r == iterator_next(iterators[it], seen) IN
         IF fault
         THEN /\ aborted' = TRUE
              /\ lastResult' = NoResult
              /\ UNCHANGED <<iterators, iterHist>>
         ELSE /\ aborted' = FALSE
              /\ iterators' = [iterators EXCEPT ![it] = r.slots]
              /\ iterHist' = [iterHist EXCEPT
                   ![it].yielded = IF r.result.done THEN @ ELSE Append(@, r.result.value),
                   ![it].dones = IF r.result.done /\ @ < 2 THEN @ + 1 ELSE @]
              /\ lastResult' = r.result
  /\ lastOp' = Op("next", NoKey, it, "")
  /\ UNCHANGED <<bridgeRest, pyErr, self, bytesData, otherSlot>>

(***************************************************************************)
(* The engine's pending exception and setSpiderMonkeyException.            *)
(***************************************************************************)
\* what the engine leaves on the JSContext when it fails: whether an
\* exception is pending, whether its stack and its report can be had, and
\* the fields of the report
EngineError(pending, retrievable, reportable, hasReport, filename, lineno, linebuf, tokenOffset, message, stack) ==
  [pending |-> pending, retrievable |-> retrievable, reportable |-> reportable,
   hasReport |-> hasReport, filename |-> filename, lineno |-> lineno,
   linebuf |-> linebuf, tokenOffset |-> tokenOffset, message |-> message,
   stack |-> stack]

NoException == EngineError(FALSE, FALSE, FALSE, FALSE, "", 0, "", 0, "", "")

\* the failures of JS::Evaluate in the model: a syntax error with its line,
\* an error thrown by the script with a stack and no line text, an
\* exception whose stack cannot be retrieved, one whose report cannot be
\* built, and a failure that leaves no exception
EngineErrors ==
  { EngineError(TRUE, TRUE, TRUE, TRUE, "evaluate", 1, "let x = ;", 8,
                "SyntaxError: expected expression, got ';'", ""),
    EngineError(TRUE, TRUE, TRUE, TRUE, "evaluate", 12, "", 0,
                "Error: boom", "  f@evaluate:12:9\n"),
    EngineError(TRUE, FALSE, FALSE, FALSE, "", 0, "", 0, "", ""),
    EngineError(TRUE, TRUE, FALSE, FALSE, "", 0, "", 0, "", ""),
    NoException }

\* std::string(n, ' ')
RECURSIVE Spaces(_)
Spaces(n) == IF n = 0 THEN "" ELSE " " \o Spaces(n - 1)

\* a variant that writes the caret line whether or not there is a line
setSpiderMonkeyException_CaretAlways(e) ==
  IF ~e.pending
  THEN PyErr("SpiderMonkeyError", "Spidermonkey failed, but spidermonkey did not set an exception.")
  ELSE IF ~e.retrievable
  THEN PyErr("SpiderMonkeyError", "Spidermonkey set an exception, but was unable to retrieve it.")
  ELSE IF ~e.reportable
  THEN PyErr("SpiderMonkeyError", "Spidermonkey set an exception, but could not initialize the error report.")
  ELSE PyErr("SpiderMonkeyError",
         (IF e.hasReport
          THEN "Error in file " \o e.filename \o ", on line " \o to_string(e.lineno) \o ":\n"
               \o e.linebuf \o "\n" \o Spaces(e.tokenOffset) \o "^\n"
          ELSE "")
         \o e.message \o "\n"
         \o (IF e.stack # "" THEN "Stack Trace: \n" \o e.stack ELSE ""))

\* setSpiderMonkeyException, lines 23-79: the host exception it sets for
\* the engine error e
setSpiderMonkeyException(e) ==
  IF ~e.pending
  THEN PyErr("SpiderMonkeyError", "Spidermonkey failed, but spidermonkey did not set an exception.")
  ELSE IF ~e.retrievable
  THEN PyErr("SpiderMonkeyError", "Spidermonkey set an exception, but was unable to retrieve it.")
  ELSE IF ~e.reportable
  THEN PyErr("SpiderMonkeyError", "Spidermonkey set an exception, but could not initialize the error report.")
  ELSE PyErr("SpiderMonkeyError",
         \* lines 52-66
         (IF e.hasReport
          THEN "Error in file " \o e.filename \o ", on line " \o to_string(e.lineno) \o ":\n"
               \o (IF Len(e.linebuf) > 0
                   THEN e.linebuf \o "\n" \o Spaces(e.tokenOffset) \o "^\n"
                   ELSE "")
          ELSE "")
         \* line 69
         \o e.message \o "\n"
         \* lines 71-76
         \o (IF e.stack # "" THEN "Stack Trace: \n" \o e.stack ELSE ""))

(***************************************************************************)
(* SpecTable: the table under its contract. Wrappers and handles exist,    *)
(* the host holds every wrapper, and register, reference drops and the     *)
(* callback come in any order.                                             *)
(***************************************************************************)
InitTable ==
  /\ PyTypeToGCThing = << >>
  /\ refcnt = [w \in Wrappers |-> 2]
  /\ finalized = [w \in Wrappers |-> FALSE]
  /\ deleteCount = [h \in Handles |-> 0]
  /\ pyTypes = Wrappers
  /\ gcThings = Handles
  /\ aborted = FALSE
  /\ sweepLog = <<>>
  /\ lastCall = "init"
  /\ evalPc = "idle"
  /\ evalRval = 0
  /\ returnValue = 0
  /\ evalResult = "none"
  /\ jsPending = NoException
  /\ resultKind = "none"
  /\ pyErr = NoErr
  /\ NoProxy

TableMemoize ==
  /\ \E w \in Wrappers, h \in Handles : memoizePyTypeAndGCThing(w, h)
  /\ UNCHANGED <<evalVars, pyErr, proxyVars>>

TableCallback ==
  /\ \E status \in {"JSGC_BEGIN", "JSGC_END"} : handleSharedPythonMonkeyMemory(status)
  /\ UNCHANGED <<evalVars, pyErr, proxyVars>>

TableDecref ==
  /\ \E w \in Wrappers : HostDecref(w)
  /\ UNCHANGED <<evalVars, pyErr, proxyVars>>

TableFinalize ==
  /\ \E w \in Wrappers : HostFinalize(w)
  /\ UNCHANGED <<evalVars, pyErr, proxyVars>>

NextTable == TableMemoize \/ TableCallback \/ TableDecref \/ TableFinalize

SpecTable == InitTable /\ [][NextTable]_vars

(***************************************************************************)
(* collect and eval                                                        *)
(***************************************************************************)
\* JS_GC (line 73): one collection cycle; the engine calls the registered
\* callback (line 214) with JSGC_BEGIN and then with JSGC_END
JS_GC(name) ==
  /\ ~aborted
  /\ \E order \in Perms(DOMAIN PyTypeToGCThing), abortOnUB \in BOOLEAN :
       LET b == HookResult("JSGC_BEGIN", order, PyTypeToGCThing, deleteCount, abortOnUB)
           e == IF b.aborted THEN b
                ELSE HookResult("JSGC_END", order, b.table, b.del, abortOnUB)
       IN /\ PyTypeToGCThing' = e.table
          /\ deleteCount' = e.del
          /\ sweepLog' = b.log
          /\ aborted' = b.aborted
          /\ lastCall' = name
  /\ UNCHANGED <<refcnt, finalized, pyTypes, gcThings>>

\* lines 72-75: the host forces a collection
collect ==
  /\ evalPc = "idle"
  /\ JS_GC("collect")
  /\ UNCHANGED <<evalVars, pyErr, proxyVars>>

\* the categories of value a script can leave in rval (lines 115-167)
ResultKinds == {"undefined", "null", "boolean", "number", "string", "symbol",
                "bigint", "object", "magic"}

\* lines 87-104: eval refuses its argument before it creates anything
evalRejected(why) ==
  /\ ~aborted /\ evalPc = "idle"
  /\ pyErr = NoErr
  /\ pyErr' = IF why = "notString"
              THEN PyErr("TypeError", "pythonmonkey.eval expects a string as its first argument")
              ELSE PyErr("RuntimeError", "Spidermonkey could not initialize with given JS code.")
  /\ evalResult' = "NULL"
  /\ lastCall' = "eval"
  /\ sweepLog' = <<>>
  /\ UNCHANGED <<PyTypeToGCThing, refcnt, finalized, deleteCount, pyTypes, gcThings,
                 aborted, evalPc, evalRval, returnValue>>
  /\ UNCHANGED <<jsPending, resultKind, proxyVars>>

\* lines 87-107: eval accepts its argument and creates the handle rval
evalBegin ==
  /\ ~aborted /\ evalPc = "idle"
  /\ pyErr = NoErr
  /\ gcThings # Handles
  /\ LET h == CHOOSE x \in Handles \ gcThings : \A y \in Handles \ gcThings : x <= y IN
       /\ gcThings' = gcThings \cup {h}
       /\ evalRval' = h
  /\ evalPc' = "Evaluate"
  /\ returnValue' = 0
  /\ lastCall' = "eval"
  /\ sweepLog' = <<>>
  /\ UNCHANGED <<PyTypeToGCThing, refcnt, finalized, deleteCount, pyTypes, aborted,
                 evalResult, pyErr>>
  /\ resultKind' = "none"
  /\ UNCHANGED <<jsPending, proxyVars>>

\* a collection that the engine starts inside JS::Evaluate (line 108) or
\* inside the StrType constructor (line 128)
evalGC ==
  /\ evalPc \in {"Evaluate", "StrType", "Memoized"}
  /\ JS_GC("evalGC")
  /\ UNCHANGED <<evalVars, pyErr, proxyVars>>

\* lines 108-111: JS::Evaluate fails and leaves the engine's error on the
\* context; the fixed message is set and eval returns
evalFailed ==
  /\ ~aborted /\ evalPc = "Evaluate"
  /\ \E e \in EngineErrors : jsPending' = e
  /\ pyErr' = PyErr("RuntimeError", "Spidermonkey could not evaluate the given JS code.")
  /\ evalResult' = "NULL"
  /\ evalPc' = "idle"
  /\ evalRval' = 0
  /\ lastCall' = "evalReturn"
  /\ sweepLog' = <<>>
  /\ UNCHANGED <<PyTypeToGCThing, refcnt, finalized, deleteCount, pyTypes, gcThings,
                 aborted, returnValue>>
  /\ UNCHANGED <<resultKind, proxyVars>>

\* an eval that refuses the categories it has no wrapper for
ReturnFor_Refuses(kind, isDate) ==
  CASE kind = "boolean" -> "BoolType"
    [] kind = "number" -> "FloatType"
    [] kind = "object" /\ isDate -> "datetime"
    [] kind = "object" -> "None"
    [] OTHER -> "NULL"

\* what eval returns for a result that is not a string (lines 115-174);
\* isDate stands for JS::ObjectIsDate succeeding (line 141 tests the pointer)
ReturnFor(kind, isDate) ==
  CASE kind = "boolean" -> "BoolType"
    [] kind = "number" -> "FloatType"
    [] kind = "object" /\ isDate -> "datetime"
    [] OTHER -> "None"

\* lines 108-174: JS::Evaluate succeeds with a result that is not a string
evalScalar(kind, isDate) ==
  /\ ~aborted /\ evalPc = "Evaluate"
  /\ kind \in ResultKinds \ {"string"}
  /\ evalResult' = ReturnFor(kind, isDate)
  /\ evalPc' = "idle"
  /\ evalRval' = 0
  /\ lastCall' = "evalReturn"
  /\ sweepLog' = <<>>
  /\ UNCHANGED <<PyTypeToGCThing, refcnt, finalized, deleteCount, pyTypes, gcThings,
                 aborted, returnValue, pyErr>>
  /\ resultKind' = kind
  /\ UNCHANGED <<jsPending, proxyVars>>

\* the reference count of the PyObject of a new StrType: the bridge's
\* reference and the one that eval hands to the host
NewStrTypeRefcnt == 2

\* lines 127-128: the result is a string; the StrType wrapper is created
evalString ==
  /\ ~aborted /\ evalPc = "Evaluate"
  /\ pyTypes # Wrappers
  /\ LET w == CHOOSE x \in Wrappers \ pyTypes : \A y \in Wrappers \ pyTypes : x <= y IN
       /\ pyTypes' = pyTypes \cup {w}
       /\ returnValue' = w
       /\ refcnt' = [refcnt EXCEPT ![w] = NewStrTypeRefcnt]
  /\ evalPc' = "StrType"
  /\ lastCall' = "eval"
  /\ sweepLog' = <<>>
  /\ UNCHANGED <<PyTypeToGCThing, finalized, deleteCount, gcThings, aborted,
                 evalRval, evalResult, pyErr>>
  /\ resultKind' = "string"
  /\ UNCHANGED <<jsPending, proxyVars>>

\* an eval that returns the wrapper of a string without registering it
evalMemoize_Forgets ==
  /\ ~aborted /\ evalPc = "StrType"
  /\ evalPc' = "Memoized"
  /\ lastCall' = "eval"
  /\ sweepLog' = <<>>
  /\ UNCHANGED <<PyTypeToGCThing, refcnt, finalized, deleteCount, pyTypes, gcThings, aborted,
                 evalRval, returnValue, evalResult, pyErr>>
  /\ UNCHANGED <<jsPending, resultKind, proxyVars>>

\* line 129: the pair of the wrapper and the handle is memoized
evalMemoize ==
  /\ ~aborted /\ evalPc = "StrType"
  /\ PyTypeToGCThing' = Memoized(PyTypeToGCThing, returnValue, evalRval)
  /\ evalPc' = "Memoized"
  /\ lastCall' = "eval"
  /\ sweepLog' = <<>>
  /\ UNCHANGED <<refcnt, finalized, deleteCount, pyTypes, gcThings, aborted,
                 evalRval, returnValue, evalResult, pyErr>>
  /\ UNCHANGED <<jsPending, resultKind, proxyVars>>

\* lines 169-170: the wrapper's PyObject is returned to the host
evalReturnWrapper ==
  /\ ~aborted /\ evalPc = "Memoized"
  /\ evalResult' = "StrType"
  /\ evalPc' = "idle"
  /\ evalRval' = 0
  /\ lastCall' = "evalReturn"
  /\ sweepLog' = <<>>
  /\ UNCHANGED <<PyTypeToGCThing, refcnt, finalized, deleteCount, pyTypes, gcThings, aborted,
                 returnValue, pyErr>>
  /\ UNCHANGED <<jsPending, resultKind, proxyVars>>

\* the host runs only while no eval is running
HostStep ==
  /\ evalPc = "idle"
  /\ \/ \E w \in Wrappers : HostDecref(w)
     \/ \E w \in Wrappers : HostFinalize(w)
  /\ UNCHANGED <<evalVars, pyErr, proxyVars>>

\* the host handles the exception that a call of eval left set
HostHandlesError ==
  /\ ~aborted /\ evalPc = "idle"
  /\ pyErr # NoErr
  /\ pyErr' = NoErr
  /\ UNCHANGED <<gcVars, evalVars, proxyVars>>

(***************************************************************************)
(* SpecBridge: the module as the host drives it: eval, collect, and the    *)
(* host's own references to the values eval returned.                      *)
(***************************************************************************)
InitBridge ==
  /\ PyTypeToGCThing = << >>
  /\ refcnt = [w \in Wrappers |-> 0]
  /\ finalized = [w \in Wrappers |-> FALSE]
  /\ deleteCount = [h \in Handles |-> 0]
  /\ pyTypes = {}
  /\ gcThings = {}
  /\ aborted = FALSE
  /\ sweepLog = <<>>
  /\ lastCall = "init"
  /\ evalPc = "idle"
  /\ evalRval = 0
  /\ returnValue = 0
  /\ evalResult = "none"
  /\ jsPending = NoException
  /\ resultKind = "none"
  /\ pyErr = NoErr
  /\ NoProxy

NextBridge ==
  \/ collect
  \/ \E why \in {"notString", "sourceInit"} : evalRejected(why)
  \/ evalBegin
  \/ evalGC
  \/ evalFailed
  \/ \E kind \in ResultKinds, isDate \in BOOLEAN : evalScalar(kind, isDate)
  \/ evalString
  \/ evalMemoize
  \/ evalReturnWrapper
  \/ HostStep
  \/ HostHandlesError

SpecBridge == InitBridge /\ [][NextBridge]_vars

(***************************************************************************)
(* SpecProxy and SpecIterator: one proxy over a buffer while it is alive.  *)
(* SpecProxy is the script that reads and writes properties and calls the  *)
(* string methods; SpecIterator is the script that makes iterators, calls  *)
(* next() on them and writes to the proxy in between.  The two share the   *)
(* buffer only.                                                            *)
(***************************************************************************)
InitProxy ==
  /\ PyTypeToGCThing = << >>
  /\ refcnt = [w \in Wrappers |-> 0]
  /\ finalized = [w \in Wrappers |-> FALSE]
  /\ deleteCount = [h \in Handles |-> 0]
  /\ pyTypes = {}
  /\ gcThings = {}
  /\ aborted = FALSE
  /\ sweepLog = <<>>
  /\ lastCall = "init"
  /\ evalPc = "idle"
  /\ evalRval = 0
  /\ returnValue = 0
  /\ evalResult = "none"
  /\ jsPending = NoException
  /\ resultKind = "none"
  /\ pyErr = NoErr
  /\ self \in HostObjects
  /\ bytesData \in Buffers
  /\ otherSlot = "live"
  /\ iterators = <<>>
  /\ iterHist = <<>>
  /\ lastOp = NoOp
  /\ lastResult = NoResult

NextProxy ==
  \/ \E id \in ReadKeys : ProxyGet(id)
  \/ \E id \in WriteKeys, v \in ByteVals : ProxySet(id, v)
  \/ \E fn \in {"array_toString", "array_valueOf"} : CallStringMethod(fn)

SpecProxy == InitProxy /\ [][NextProxy]_vars

NextIterator ==
  \/ \E fn \in {"array_entries", "array_keys", "array_values"} : CallIteratorMethod(fn)
  \/ \E it \in 1..MaxIters : IteratorNext(it)
  \/ \E id \in WriteKeys, v \in ByteVals : ProxySet(id, v)

SpecIterator == InitProxy /\ [][NextIterator]_vars

(***************************************************************************)
(* SpecAdapters: several iterators over one proxy, made by any of the      *)
(* iterator functions and stepped in any order.                            *)
(***************************************************************************)
\* bound: the iterators of SpecAdapters, one more than MaxIters
MaxAdapters == MaxIters + 1

\* the buffers of SpecAdapters: one of every length, of bytes that differ
\* from one index to the next
AdapterBuffers == {[i \in 1..n |-> IF i % 2 = 1 THEN 20 ELSE 255] : n \in 0..MaxLen}

InitAdapters ==
  /\ InitProxy
  /\ self.tp_name = "bytes"
  /\ bytesData \in AdapterBuffers

NextAdapters ==
  \/ \E fn \in {"array_entries", "array_keys", "array_values"} : MakeIterator(fn, MaxAdapters)
  \/ \E it \in 1..MaxAdapters : IteratorNext(it)

SpecAdapters == InitAdapters /\ [][NextAdapters]_vars

(***************************************************************************)
(* SpecLifetime: one proxy from its creation to after its finalization.    *)
(* While the proxy is alive the script reads the synthetic properties and  *)
(* reads and writes one key of every kind, calls the string methods, makes one iterator and calls next() on  *)
(* it; the collector finalizes the proxy when the script has dropped it,   *)
(* and the iterator can still be called afterwards.                        *)
(***************************************************************************)
\* the keys read in the lifetime: one of every kind and every synthetic name
LifetimeKeys == WriteKeys \cup {StrKey(name) : name \in SyntheticNames}

LiveGet == otherSlot = "live" /\ \E id \in LifetimeKeys : ProxyGet(id)

LiveSet == otherSlot = "live" /\ \E id \in WriteKeys, v \in ByteVals : ProxySet(id, v)

LiveStringMethod ==
  otherSlot = "live" /\ \E fn \in {"array_toString", "array_valueOf"} : CallStringMethod(fn)

LiveIteratorMethod ==
  /\ otherSlot = "live"
  /\ iterators = <<>>
  /\ \E fn \in {"array_entries", "array_keys", "array_values"} : CallIteratorMethod(fn)

LiveNext == otherSlot = "live" /\ \E it \in 1..MaxIters : IteratorNext(it)

DanglingNext == \E it \in 1..MaxIters : IteratorNextDangling(it)

NextLifetime ==
  \/ LiveGet
  \/ LiveSet
  \/ LiveStringMethod
  \/ LiveIteratorMethod
  \/ LiveNext
  \/ finalize
  \/ DanglingNext

SpecLifetime == InitProxy /\ [][NextLifetime]_vars

(***************************************************************************)
(* SpecException: setSpiderMonkeyException under its contract: it is       *)
(* called after an engine call has failed, with whatever the engine left   *)
(* on the context.                                                         *)
(***************************************************************************)
\* the messages, stacks, line numbers, lines and token offsets of the
\* engine errors of this specification
ErrorMessages == {"SyntaxError: expected expression, got ';'", "Error: boom"}
ErrorStacks == {"", "  f@noname:3:9\n"}
ErrorLines == {1, 3, 12}
ErrorLinebufs == {"", "let x = ;", "  f()"}
ErrorOffsets == {0, 2, 8}

\* what a failed engine call can leave on the context.  The fields of a
\* stage are there only when the stage before it succeeded: a stack when
\* the exception can be retrieved (line 29), a message when the report
\* builder initialises (line 34), file, line and line text when the builder
\* has a report (line 51); a token offset points into a line that is there.
PendingErrors ==
  {NoException, EngineError(TRUE, FALSE, FALSE, FALSE, "", 0, "", 0, "", "")}
  \cup {EngineError(TRUE, TRUE, FALSE, FALSE, "", 0, "", 0, "", stack) : stack \in ErrorStacks}
  \cup {EngineError(TRUE, TRUE, TRUE, FALSE, "", 0, "", 0, message, stack) :
          message \in ErrorMessages, stack \in ErrorStacks}
  \cup {e \in {EngineError(TRUE, TRUE, TRUE, TRUE, "noname", lineno, linebuf, tokenOffset,
                           message, stack) :
                 lineno \in ErrorLines, linebuf \in ErrorLinebufs,
                 tokenOffset \in ErrorOffsets, message \in ErrorMessages,
                 stack \in ErrorStacks} :
          e.tokenOffset <= Len(e.linebuf)}

InitException ==
  /\ PyTypeToGCThing = << >>
  /\ refcnt = [w \in Wrappers |-> 0]
  /\ finalized = [w \in Wrappers |-> FALSE]
  /\ deleteCount = [h \in Handles |-> 0]
  /\ pyTypes = {}
  /\ gcThings = {}
  /\ aborted = FALSE
  /\ sweepLog = <<>>
  /\ lastCall = "init"
  /\ evalPc = "idle"
  /\ evalRval = 0
  /\ returnValue = 0
  /\ evalResult = "none"
  /\ jsPending = NoException
  /\ resultKind = "none"
  /\ pyErr = NoErr
  /\ NoProxy

\* an engine call fails and leaves e on the context
EngineCallFails ==
  /\ pyErr = NoErr
  /\ \E e \in PendingErrors : jsPending' = e
  /\ lastCall' = "engineFailed"
  /\ UNCHANGED <<PyTypeToGCThing, refcnt, finalized, deleteCount, pyTypes, gcThings,
                 aborted, sweepLog>>
  /\ UNCHANGED <<evalPc, evalRval, returnValue, evalResult, resultKind, pyErr, proxyVars>>

\* the caller of the failed engine call calls setSpiderMonkeyException(cx)
CallSetSpiderMonkeyException ==
  /\ lastCall = "engineFailed"
  /\ pyErr' = setSpiderMonkeyException(jsPending)
  /\ lastCall' = "setSpiderMonkeyException"
  /\ UNCHANGED <<PyTypeToGCThing, refcnt, finalized, deleteCount, pyTypes, gcThings,
                 aborted, sweepLog>>
  /\ UNCHANGED <<evalVars, proxyVars>>

NextException == EngineCallFails \/ CallSetSpiderMonkeyException \/ HostHandlesError

SpecException == InitException /\ [][NextException]_vars

(***************************************************************************)
(* Properties of the table and the callback.                               *)
(***************************************************************************)
\* the entries of table T that list handle h
Listing(T, h) == {w \in DOMAIN T : h \in Range(T[w])}

\* the step is a run of the callback with the collection-begin status
IsSweep == lastCall' = "JSGC_BEGIN" /\ ~aborted

\* C1: while the bridge runs, every handle that an entry of the table lists
\* has not been deleted.
C1_ListedHandlesUnreleased ==
  ~aborted => \A w \in DOMAIN PyTypeToGCThing :
                \A h \in Range(PyTypeToGCThing[w]) : deleteCount[h] = 0

\* C1 witness: a sweep has just retired an entry and deleted its handle
\* while another entry stays in the table with a handle of its own.
C1_Witness ==
  /\ lastCall = "JSGC_BEGIN" /\ ~aborted
  /\ \E k \in 1..Len(sweepLog) : sweepLog[k].erased /\ sweepLog[k].released # <<>>
  /\ \E w \in DOMAIN PyTypeToGCThing : PyTypeToGCThing[w] # <<>>

\* C2: no handle is deleted more than once.
C2_ReleasedAtMostOnce == \A h \in Handles : deleteCount[h] <= 1

\* C3: a collection that the host forces removes the entry of every wrapper
\* whose host references have all been dropped, and deletes every handle
\* that only such wrappers listed.
C3_CollectReclaims ==
  [][(lastCall' = "collect" /\ ~aborted) =>
       \A w \in DOMAIN PyTypeToGCThing :
         refcnt[w] = 1 =>
           /\ w \notin DOMAIN PyTypeToGCThing'
           /\ \A h \in Range(PyTypeToGCThing[w]) :
                (\A v \in Listing(PyTypeToGCThing, h) : refcnt[v] = 1)
                  => deleteCount'[h] > deleteCount[h]]_vars

\* C3 witness: collect ran over a table that held the wrappers of two string
\* results the host had dropped; the table is empty and both handles are
\* deleted.
C3_Witness ==
  /\ lastCall = "collect"
  /\ Len(sweepLog) >= 2
  /\ \A k \in 1..Len(sweepLog) : sweepLog[k].erased /\ refcnt[sweepLog[k].wrapper] = 1
  /\ PyTypeToGCThing = << >>
  /\ \A k \in 1..Len(sweepLog) : \A h \in Range(sweepLog[k].handles) : deleteCount[h] = 1

\* entry v was erased by a visit before position k of the log
ErasedBefore(log, k, v) == \E j \in 1..(k - 1) : log[j].wrapper = v /\ log[j].erased

\* the visit at position k is the one of the last entry that lists h
LastListing(T, log, k, h) ==
  \A v \in Listing(T, h) \ {log[k].wrapper} : ErasedBefore(log, k, v)

\* C4: in a sweep, a handle that two or more entries list is deleted only by
\* the visit that retires the last entry listing it, and that visit deletes
\* it; a visit made while another entry still lists the handle leaves it.
C4_SharedReleasedByLast ==
  [][IsSweep =>
       \A k \in 1..Len(sweepLog') : \A h \in Range(sweepLog'[k].handles) :
         Cardinality(Listing(PyTypeToGCThing, h)) >= 2 =>
           /\ h \in Range(sweepLog'[k].released)
                => LastListing(PyTypeToGCThing, sweepLog', k, h)
           /\ sweepLog'[k].erased /\ LastListing(PyTypeToGCThing, sweepLog', k, h)
                => h \in Range(sweepLog'[k].released)
           /\ (\E v \in Listing(PyTypeToGCThing, h) : ~finalized[v] /\ refcnt[v] # 1)
                => deleteCount'[h] = deleteCount[h]]_vars

\* C4 witness: a sweep retired two entries that listed the same handle; the
\* first visit left the handle and the second deleted it.
C4_Witness ==
  /\ lastCall = "JSGC_BEGIN"
  /\ \E j, k \in 1..Len(sweepLog) : \E h \in Handles :
       /\ j < k
       /\ sweepLog[j].erased /\ sweepLog[k].erased
       /\ h \in Range(sweepLog[j].handles) /\ h \in Range(sweepLog[k].handles)
       /\ h \notin Range(sweepLog[j].released)
       /\ h \in Range(sweepLog[k].released)

\* C5: a sweep leaves the entry of every wrapper that is neither finalized nor
\* held by the bridge alone in the table with the same vector, and deletes
\* none of its handles.
C5_ReachableUntouched ==
  [][IsSweep =>
       \A w \in DOMAIN PyTypeToGCThing :
         (~finalized[w] /\ refcnt[w] # 1) =>
           /\ w \in DOMAIN PyTypeToGCThing'
           /\ PyTypeToGCThing'[w] = PyTypeToGCThing[w]
           /\ \A h \in Range(PyTypeToGCThing[w]) : deleteCount'[h] = deleteCount[h]]_vars

\* C5 witness: a sweep visited a host-reachable entry and retired another one
\* that listed one of its handles.
C5_Witness ==
  /\ lastCall = "JSGC_BEGIN"
  /\ \E j, k \in 1..Len(sweepLog) :
       /\ ~sweepLog[j].unreachable
       /\ sweepLog[k].erased
       /\ Range(sweepLog[j].handles) \cap Range(sweepLog[k].handles) # {}
       /\ sweepLog[j].wrapper \in DOMAIN PyTypeToGCThing

(***************************************************************************)
(* Properties of the bytes proxy.                                          *)
(***************************************************************************)
\* C6: every write through the proxy, whatever the key and the value, fails
\* with the read-only result, sets a TypeError whose message names the type
\* of the wrapped object (the first 100 characters of its name), and leaves
\* every byte of the buffer as it was.
C6_SetFailsReadOnly ==
  [][lastOp'.op = "set" =>
       /\ lastResult'.ok /\ lastResult'.code = "JSMSG_READ_ONLY"
       /\ pyErr'.type = "TypeError"
       /\ pyErr'.msg = "'" \o Precision100(self.tp_name)
                           \o "' object has only read-only attributes"
       /\ (Len(self.tp_name) <= 100 =>
             pyErr'.msg = "'" \o self.tp_name \o "' object has only read-only attributes")
       /\ bytesData' = bytesData
       /\ self' = self]_vars

\* a write to an index inside a buffer of a bytes object has been refused
C6_Witness ==
  /\ lastOp.op = "set" /\ lastOp.id = IntKey(0)
  /\ Len(bytesData) = MaxLen
  /\ self.tp_name = "bytes"
  /\ pyErr = PyErr("TypeError", "'bytes' object has only read-only attributes")
  /\ lastResult.code = "JSMSG_READ_ONLY"

\* C7: a read of an index inside the buffer gives the byte at that index;
\* a read of an index at or past the length never reads the buffer and is
\* answered by the attribute lookup on the wrapped object.
C7_IndexRead ==
  (lastOp.op = "get" /\ lastOp.id.t = "int") =>
     IF lastOp.id.i < Len(bytesData)
     THEN /\ lastResult.by = "index"
          /\ lastResult.desc.some
          /\ lastResult.desc.value = Int32Value(bytesData[lastOp.id.i + 1])
     ELSE /\ ~lastResult.oob
          /\ lastResult.by = "attr"

\* the expected items of an iterator made by the native mode over data
Expected(mode, data) ==
  [k \in 1..Len(data) |->
     CASE mode = "array_keys" -> Int32Value(k - 1)
       [] mode = "array_values" -> Int32Value(data[k])
       [] mode = "array_entries" -> ArrayValue(<<k - 1, data[k]>>)]

\* C8: the items next() has returned with done=false are, in order, the
\* first items of the iterator's mode; done=true is returned only after all
\* n of them, so a call after the n-th item returns done=true; no call fails.
C8_YieldsAllThenDone ==
  /\ \A it \in 1..Len(iterHist) :
       LET h == iterHist[it]
           E == Expected(h.mode, bytesData)
       IN /\ Len(h.yielded) <= Len(E)
          /\ h.yielded = SubSeq(E, 1, Len(h.yielded))
          /\ h.dones > 0 => h.yielded = E
  /\ lastOp.op = "next" =>
       /\ lastResult.ok
       /\ lastResult.done = (iterHist[lastOp.it].dones > 0)
       /\ lastResult.done = ~lastResult.hasValue

\* an entries iterator over a buffer of MaxLen bytes has returned every
\* pair and then done=true, twice
C8_Witness ==
  /\ Len(bytesData) = MaxLen
  /\ lastOp.op = "next" /\ lastResult.done
  /\ iterHist[lastOp.it].dones = 2
  /\ iterHist[lastOp.it].mode = "array_entries"
  /\ Len(iterHist[lastOp.it].yielded) = MaxLen
  /\ iterHist[lastOp.it].yielded[MaxLen] = ArrayValue(<<MaxLen - 1, bytesData[MaxLen]>>)

\* C9: once next() has returned done=true, every later next() on that
\* iterator returns done=true with no value, does not fail, and leaves the
\* cursor, the item kind and the iterated-object reference as they were.
C9_TerminalAbsorbing ==
  [][\A it \in 1..Len(iterHist) :
       (iterHist[it].dones > 0 /\ lastOp'.op = "next" /\ lastOp'.it = it) =>
          /\ lastResult'.ok
          /\ lastResult'.done
          /\ ~lastResult'.hasValue
          /\ lastResult'.value = UndefinedValue
          /\ iterators'[it].nextIndex = iterators[it].nextIndex
          /\ iterators'[it].itemKind = iterators[it].itemKind
          /\ iterators'[it].iteratedObject = iterators[it].iteratedObject]_vars

\* next() was called on an iterator over a non-empty buffer that had
\* already returned done=true
C9_Witness ==
  /\ Len(bytesData) > 0
  /\ lastOp.op = "next" /\ lastResult.done
  /\ lastOp = Op("next", NoKey, 1, "")
  /\ iterHist[1].dones = 2
  /\ iterators[1].nextIndex = Len(bytesData)

\* the step of the resolution order that a key belongs to
Category(id) ==
  CASE id.t = "str" /\ id.s \in {"toString", "valueOf", "entries", "keys", "values"} -> "method"
    [] id.t = "str" /\ id.s \in {"length", "byteLength", "buffer", "BYTES_PER_ELEMENT",
                                 "byteOffset", "constructor"} -> "synthetic"
    [] id.t = "sym" -> "symbol"
    [] id.t = "int" -> "index"
    [] OTHER -> "attr"

\* C10: a read is answered by the first step its key belongs to, in the
\* order method, synthetic property, symbol, index, host attribute; a host
\* attribute named like a method or a synthetic property is never returned.
C10_ResolutionOrder ==
  lastOp.op = "get" =>
    /\ lastResult.by = Category(lastOp.id)
    /\ Category(lastOp.id) = "method" =>
         /\ lastResult.desc.some
         /\ lastResult.desc.value = ObjectValue("array_" \o lastOp.id.s, 0)
    /\ Category(lastOp.id) = "synthetic" =>
         /\ lastResult.desc.some
         /\ lastResult.desc.value # ObjectValue("attribute", 0)
    /\ lastOp.id = SymKey("iterator") =>
         lastResult.desc = Some(ObjectValue("array_values", 0), TRUE)
    /\ lastResult.desc.value = ObjectValue("attribute", 0) =>
         /\ Category(lastOp.id) = "attr"
         /\ lastOp.id.s \in self.attrs

\* the wrapped object has an attribute named like a method, and the read of
\* that name returned the method
C10_Witness ==
  /\ lastOp = Op("get", StrKey("keys"), 0, "")
  /\ "keys" \in self.attrs
  /\ lastResult.by = "method"
  /\ lastResult.desc.value = ObjectValue("array_keys", 0)

\* C11: no operation of the proxy or of an iterator (a read, a write, a
\* string method, an iterator method, next(), finalize, next() after
\* finalize) changes a byte or the length of the buffer.
C11_BufferNeverMutated == [][bytesData' = bytesData]_vars

\* a write was refused, the proxy was finalized, and next() ran on the
\* iterator that outlived it, over a buffer of MaxLen bytes
C11_Witness ==
  /\ Len(bytesData) = MaxLen
  /\ otherSlot = "deleted"
  /\ pyErr.type = "TypeError"
  /\ lastOp.op = "next" /\ ~aborted
  /\ iterHist[1].yielded # <<>>

(***************************************************************************)
(* Properties of eval.                                                     *)
(***************************************************************************)
\* C12: when JS::Evaluate fails, the host exception eval leaves set is the
\* diagnostic that setSpiderMonkeyException builds from the engine's
\* pending exception.
C12_EvalFailureDiagnostic ==
  (lastCall = "evalReturn" /\ evalResult = "NULL" /\ pyErr # NoErr) =>
     pyErr = setSpiderMonkeyException(jsPending)

(***************************************************************************)
(* Properties of the register call and of the scan.                        *)
(***************************************************************************)
\* the step is a call of memoizePyTypeAndGCThing: the only operation
\* besides the callback that writes the table
IsRegister == lastCall' = "other" /\ PyTypeToGCThing' # PyTypeToGCThing

\* C13: a register call is possible for every wrapper and live handle; it
\* creates the wrapper's entry when there is none and otherwise appends the
\* handle after the handles already listed, and it leaves every other entry
\* and the released-state of every handle as they were.
C13_RegisterFrame ==
  /\ [](\A w \in Wrappers, h \in Handles :
          (~aborted /\ deleteCount[h] = 0 /\ Registered(PyTypeToGCThing) < MaxRegistered)
             => ENABLED memoizePyTypeAndGCThing(w, h))
  /\ [][IsRegister =>
          \E w \in Wrappers, h \in Handles :
            /\ DOMAIN PyTypeToGCThing' = (DOMAIN PyTypeToGCThing) \cup {w}
            /\ PyTypeToGCThing'[w] = IF w \in DOMAIN PyTypeToGCThing
                                     THEN PyTypeToGCThing[w] \o <<h>>
                                     ELSE <<h>>
            /\ \A v \in (DOMAIN PyTypeToGCThing) \ {w} :
                 PyTypeToGCThing'[v] = PyTypeToGCThing[v]
            /\ deleteCount' = deleteCount
            /\ aborted' = aborted]_vars

\* a wrapper lists a handle twice, after another entry, and one handle has
\* been released before
C13_Witness ==
  /\ lastCall = "other" /\ ~aborted
  /\ \E w \in DOMAIN PyTypeToGCThing, h \in Handles :
       /\ PyTypeToGCThing[w] = <<h, h>>
       /\ \E g \in Handles \ {h} : deleteCount[g] = 1

(***************************************************************************)
(* Properties of the synthetic properties, the iterator natives and the    *)
(* string methods.                                                         *)
(***************************************************************************)
\* C14: whatever reads, refused writes and iterations came before, a read
\* of length or byteLength gives the length of the buffer, of
\* BYTES_PER_ELEMENT 1, of byteOffset 0, and of buffer the array buffer.
C14_SyntheticProperties ==
  (lastOp.op = "get" /\ lastOp.id.t = "str") =>
     /\ lastOp.id.s \in {"length", "byteLength"} =>
          lastResult.desc.some /\ lastResult.desc.value = Int32Value(Len(bytesData))
     /\ lastOp.id.s = "BYTES_PER_ELEMENT" =>
          lastResult.desc.some /\ lastResult.desc.value = Int32Value(1)
     /\ lastOp.id.s = "byteOffset" =>
          lastResult.desc.some /\ lastResult.desc.value = Int32Value(0)
     /\ lastOp.id.s = "buffer" =>
          lastResult.desc.some /\ lastResult.desc.value = ObjectValue("arrayBuffer", 0)

\* length is read as MaxLen after a refused write and a complete iteration
C14_Witness ==
  /\ lastOp = Op("get", StrKey("length"), 0, "")
  /\ lastResult.desc.value = Int32Value(MaxLen)
  /\ pyErr.type = "TypeError"
  /\ Len(iterHist) = 1 /\ iterHist[1].dones > 0 /\ Len(iterHist[1].yielded) = MaxLen

\* C15: an iterator made by the function read under entries has the item
\* kind key-and-value, under keys the kind key, under values and under the
\* iterator symbol the kind value; it starts with cursor 0; and what the
\* iterator made through the symbol returns is what values() returns.
C15_IteratorModes ==
  \A it \in 1..Len(iterators) :
    LET h == iterHist[it]
        slots == iterators[it]
    IN /\ h.via \in {StrKey("entries"), StrKey("keys"), StrKey("values"), SymKey("iterator")}
       /\ h.via = StrKey("entries") => slots.itemKind = ITEM_KIND_KEY_AND_VALUE
       /\ h.via = StrKey("keys") => slots.itemKind = ITEM_KIND_KEY
       /\ h.via = StrKey("values") => slots.itemKind = ITEM_KIND_VALUE
       /\ h.via = SymKey("iterator") =>
            /\ slots.itemKind = ITEM_KIND_VALUE
            /\ h.yielded = SubSeq(Expected("array_values", bytesData), 1, Len(h.yielded))
            /\ h.dones > 0 => h.yielded = Expected("array_values", bytesData)
       /\ (h.yielded = <<>> /\ h.dones = 0) => slots.nextIndex = 0

\* the iterator made through the iterator symbol has returned every byte of
\* a buffer of MaxLen bytes and then done=true
C15_Witness ==
  /\ Len(bytesData) = MaxLen
  /\ Len(iterators) > 0
  /\ iterHist[1].via = SymKey("iterator")
  /\ iterHist[1].dones > 0
  /\ iterHist[1].yielded = [k \in 1..MaxLen |-> Int32Value(bytesData[k])]

\* the decimal numeral of a byte, digit by digit
DecimalOfByte(b) ==
  LET digit(d) == SubSeq("0123456789", d + 1, d + 1)
      hundreds == b \div 100
      tens == (b \div 10) % 10
      units == b % 10
  IN (IF hundreds > 0 THEN digit(hundreds) ELSE "")
     \o (IF hundreds > 0 \/ tens > 0 THEN digit(tens) ELSE "")
     \o digit(units)

\* the numerals of the bytes of data with one comma between neighbours
RECURSIVE CommaJoined(_)
CommaJoined(data) ==
  IF data = <<>> THEN ""
  ELSE IF Len(data) = 1 THEN DecimalOfByte(data[1])
  ELSE CommaJoined(SubSeq(data, 1, Len(data) - 1)) \o "," \o DecimalOfByte(data[Len(data)])

\* the positions of string str that hold a comma
Commas(str) == {i \in 1..Len(str) : SubSeq(str, i, i) = ","}

\* C16: toString and valueOf return the same string for the same buffer:
\* the decimal numerals of the bytes in index order with single commas
\* between them, no comma at either end, and the empty string for the
\* empty buffer.
C16_StringRendering ==
  (lastOp.op = "call" /\ lastOp.fn \in {"array_toString", "array_valueOf"}) =>
     LET str == lastResult.value.s IN
       /\ lastResult.ok
       /\ lastResult.value = StringValue(CommaJoined(bytesData))
       /\ bytesData = <<>> => str = ""
       /\ bytesData # <<>> =>
            /\ Cardinality(Commas(str)) = Len(bytesData) - 1
            /\ 1 \notin Commas(str) /\ Len(str) \notin Commas(str)
            /\ \A i \in Commas(str) : i + 1 \notin Commas(str)

\* toString was called on a buffer of MaxLen bytes that starts with 255 and
\* ends with 0
C16_Witness ==
  /\ lastOp = Op("call", NoKey, 0, "array_toString")
  /\ Len(bytesData) = MaxLen
  /\ bytesData[1] = 255 /\ bytesData[MaxLen] = 0
  /\ Len(lastResult.value.s) >= 5

(***************************************************************************)
(* Properties of eval's results and of the sweep during an eval.           *)
(***************************************************************************)
\* the categories of result eval has no wrapper for
Unsupported == {"undefined", "null", "symbol", "bigint", "magic"}

\* C17: when the script's result is of an unsupported category, eval
\* returns None, no host exception is set, the table is as it was, and the
\* handle eval made for the result is listed by no entry.
C17_UnsupportedGivesNone ==
  [][(evalPc = "Evaluate" /\ lastCall' = "evalReturn" /\ resultKind' \in Unsupported) =>
       /\ evalResult' = "None"
       /\ pyErr' = NoErr
       /\ PyTypeToGCThing' = PyTypeToGCThing
       /\ \A w \in DOMAIN PyTypeToGCThing' : evalRval \notin Range(PyTypeToGCThing'[w])
       /\ ~aborted']_vars

\* an eval whose result is a symbol has returned while the table holds the
\* entry of an earlier string result
C17_Witness ==
  /\ lastCall = "evalReturn" /\ resultKind = "symbol"
  /\ evalResult = "None"
  /\ pyErr = NoErr
  /\ PyTypeToGCThing # << >>

\* C18: while the proxy lives the cursor of an iterator is between 0 and
\* the length of the buffer, and it counts the items yielded so far; the
\* cursor changes in no step but a next() on that iterator, and there by
\* exactly one; a next() on a live buffer leaves it alone at the end of
\* the buffer and adds one before it.
C18_CursorBounds ==
  /\ [](\A it \in 1..Len(iterators) :
          /\ iterators[it].nextIndex >= 0
          /\ iterators[it].nextIndex = Len(iterHist[it].yielded)
          /\ otherSlot = "live" => iterators[it].nextIndex <= Len(bytesData))
  /\ [][\A it \in 1..Len(iterators) :
          LET cursor == iterators[it].nextIndex
              after == iterators'[it].nextIndex
          IN /\ after \in {cursor, cursor + 1}
             /\ after # cursor => lastOp' = Op("next", NoKey, it, "")
             /\ (lastOp' = Op("next", NoKey, it, "") /\ otherSlot = "live") =>
                  after = IF cursor >= Len(bytesData) THEN cursor ELSE cursor + 1]_vars

\* an iterator of a live proxy that has gone through the whole of a buffer
\* of MaxLen bytes and has answered done twice, after a refused write
C18_Witness ==
  /\ otherSlot = "live"
  /\ Len(bytesData) = MaxLen
  /\ Len(iterators) = 1
  /\ iterators[1].nextIndex = MaxLen
  /\ iterHist[1].dones = 2
  /\ lastOp.op = "set"

\* C19: an eval whose result is a string returns with the pair of its
\* wrapper and its handle in the table; a sweep that runs inside an eval,
\* before or after the pair is registered, does not delete the handle of
\* that eval, does not end the process, keeps a registered pair of that
\* eval, and leaves every entry of a host-reachable wrapper, and the
\* handles it lists, as they were.
C19_SweepInsideEval ==
  /\ [][(lastCall' = "evalReturn" /\ evalResult' = "StrType" /\ evalPc = "Memoized") =>
          /\ returnValue \in DOMAIN PyTypeToGCThing'
          /\ evalRval \in Range(PyTypeToGCThing'[returnValue])
          /\ deleteCount'[evalRval] = 0]_vars
  /\ [][(lastCall' = "evalGC" /\ evalPc # "idle") =>
          /\ ~aborted'
          /\ deleteCount'[evalRval] = 0
          /\ evalPc = "Memoized" =>
               /\ returnValue \in DOMAIN PyTypeToGCThing'
               /\ evalRval \in Range(PyTypeToGCThing'[returnValue])
          /\ \A w \in DOMAIN PyTypeToGCThing : ~HostUnreachable(w) =>
               /\ w \in DOMAIN PyTypeToGCThing'
               /\ PyTypeToGCThing'[w] = PyTypeToGCThing[w]
               /\ \A h \in Range(PyTypeToGCThing[w]) : deleteCount'[h] = deleteCount[h]]_vars

\* a sweep has run inside an eval after the pair was registered: it visited
\* the new entry and kept it, and it erased the entry of an earlier result
\* that the host had dropped
C19_Witness ==
  /\ lastCall = "evalGC" /\ evalPc = "Memoized"
  /\ Len(sweepLog) = 2
  /\ \E k \in 1..2 : sweepLog[k].wrapper = returnValue /\ ~sweepLog[k].erased
  /\ \E k \in 1..2 : sweepLog[k].wrapper # returnValue /\ sweepLog[k].erased
  /\ DOMAIN PyTypeToGCThing = {returnValue}
  /\ PyTypeToGCThing[returnValue] = <<evalRval>>

\* a sweep has run inside an eval between the creation of the wrapper and
\* the registration of the pair, and released the handle of an earlier result
C19_WitnessBefore ==
  /\ lastCall = "evalGC" /\ evalPc = "StrType"
  /\ Len(sweepLog) = 1 /\ sweepLog[1].erased
  /\ deleteCount[evalRval] = 0

\* the wrappers of table T that line 30 finds host-reachable
Kept(T) == {w \in DOMAIN T : ~HostUnreachable(w)}

\* C20: a sweep visits no entry twice, and each visit sees the vector the
\* entry had when the sweep began; a sweep that runs to its end has visited
\* every entry that was in the table when it began, whatever it erased on
\* the way, and leaves exactly the host-reachable entries, unchanged; a
\* sweep stops early only where a second delete of a handle ends the process.
C20_ScanVisitsEachOnce ==
  [][IsSweep =>
       LET T == PyTypeToGCThing
           log == sweepLog'
       IN /\ \A j, k \in 1..Len(log) : log[j].wrapper = log[k].wrapper => j = k
          /\ \A k \in 1..Len(log) :
               /\ log[k].wrapper \in DOMAIN T
               /\ log[k].handles = T[log[k].wrapper]
               /\ log[k].unreachable = HostUnreachable(log[k].wrapper)
          /\ ~aborted' =>
               /\ {log[k].wrapper : k \in 1..Len(log)} = DOMAIN T
               /\ Len(log) = Cardinality(DOMAIN T)
               /\ \A k \in 1..Len(log) : log[k].erased = log[k].unreachable
               /\ DOMAIN PyTypeToGCThing' = Kept(T)
               /\ \A w \in Kept(T) : PyTypeToGCThing'[w] = T[w]
          /\ aborted' => \E h \in Handles : deleteCount'[h] >= 2]_vars

\* a sweep over two entries erased the first one it visited, went on to
\* the second, which is host-reachable, and left only that one in the table
C20_Witness ==
  /\ lastCall = "JSGC_BEGIN" /\ ~aborted
  /\ Len(sweepLog) = 2
  /\ sweepLog[1].erased /\ sweepLog[1].released # <<>>
  /\ ~sweepLog[2].unreachable
  /\ DOMAIN PyTypeToGCThing = {sweepLog[2].wrapper}

\* a sweep over two entries erased both of them
C20_WitnessBoth ==
  /\ lastCall = "JSGC_BEGIN" /\ ~aborted
  /\ Len(sweepLog) = 2
  /\ sweepLog[1].erased /\ sweepLog[2].erased
  /\ PyTypeToGCThing = << >>

\* C21: a run of the callback with the collection-end status deletes no
\* handle, leaves the table as it was, visits no entry and does not end the
\* process; a run with the collection-begin status that reaches its end is
\* the one that retires the entries that are not host-reachable.
C21_OnlyBeginReconciles ==
  [][/\ (lastCall' = "JSGC_END" /\ ~aborted) =>
          /\ PyTypeToGCThing' = PyTypeToGCThing
          /\ deleteCount' = deleteCount
          /\ sweepLog' = <<>>
          /\ ~aborted'
     /\ (lastCall' = "JSGC_BEGIN" /\ ~aborted /\ ~aborted') =>
          DOMAIN PyTypeToGCThing' = Kept(PyTypeToGCThing)]_vars

\* the callback has run with the collection-end status over a table that
\* holds an entry the host has dropped; the entry and its handle are there
C21_Witness ==
  /\ lastCall = "JSGC_END" /\ ~aborted
  /\ \E w \in DOMAIN PyTypeToGCThing :
       /\ HostUnreachable(w)
       /\ PyTypeToGCThing[w] # <<>>
       /\ \A h \in Range(PyTypeToGCThing[w]) : deleteCount[h] = 0

(***************************************************************************)
(* Properties of setSpiderMonkeyException.                                 *)
(***************************************************************************)
\* string s occurs in string t
IsSubstring(s, t) ==
  \E i \in 1..(Len(t) - Len(s) + 1) : SubSeq(t, i, i + Len(s) - 1) = s

\* C22: a call of setSpiderMonkeyException sets a SpiderMonkeyError: with
\* one of the three fixed messages when no exception is pending, when it
\* cannot be retrieved, or when the report cannot be initialised; otherwise
\* with a text that contains the engine's message, and that contains the
\* offending line followed by the caret line exactly when the report has a
\* line that is not empty (with no such line the text has no caret line).
C22_ExceptionText ==
  [][lastCall' = "setSpiderMonkeyException" /\ lastCall = "engineFailed" =>
       LET e == jsPending
           msg == pyErr'.msg
           caret == e.linebuf \o "\n" \o Spaces(e.tokenOffset) \o "^\n"
       IN /\ pyErr = NoErr
          /\ pyErr'.type = "SpiderMonkeyError"
          /\ ~e.pending =>
               msg = "Spidermonkey failed, but spidermonkey did not set an exception."
          /\ (e.pending /\ ~e.retrievable) =>
               msg = "Spidermonkey set an exception, but was unable to retrieve it."
          /\ (e.pending /\ e.retrievable /\ ~e.reportable) =>
               msg = "Spidermonkey set an exception, but could not initialize the error report."
          /\ (e.pending /\ e.retrievable /\ e.reportable) =>
               /\ IsSubstring(e.message \o "\n", msg)
               /\ (e.hasReport /\ e.linebuf # "") => IsSubstring(caret, msg)
               /\ IsSubstring("^\n", msg) <=> (e.hasReport /\ e.linebuf # "")]_vars

\* the function has turned a syntax error with its line and token offset
\* into the text with the header, the line, the caret under the token and
\* the message
C22_Witness ==
  /\ lastCall = "setSpiderMonkeyException"
  /\ jsPending.hasReport /\ jsPending.linebuf = "let x = ;" /\ jsPending.tokenOffset = 8
  /\ jsPending.lineno = 12 /\ jsPending.stack = ""
  /\ pyErr = PyErr("SpiderMonkeyError",
       "Error in file noname, on line 12:\nlet x = ;\n        ^\nSyntaxError: expected expression, got ';'\n")

(***************************************************************************)
(* Properties of the handles eval creates.                                 *)
(***************************************************************************)
\* C23: when eval has returned, every handle created so far is listed by
\* some entry of the table or has been deleted.
C23_HandlesAccounted ==
  lastCall = "evalReturn" =>
    \A h \in gcThings :
      \/ \E w \in DOMAIN PyTypeToGCThing : h \in Range(PyTypeToGCThing[w])
      \/ deleteCount[h] >= 1

(***************************************************************************)
(* Properties of iterators and of symbol keys.                             *)
(***************************************************************************)
\* C24: no next() has run on an iterator whose buffer reference the
\* finalizer of the proxy has deleted.
C24_NoNextThroughDeleted ==
  ~(lastOp.op = "next" /\ otherSlot = "deleted")

\* C25: every call of an iterator function adds one new iterator object
\* with cursor 0 and leaves the iterators that exist as they are; a next()
\* changes the slots of no iterator but the one it is called on, and no
\* step changes the item kind or the iterated object of an iterator.
C25_AdaptersIndependent ==
  [][/\ Len(iterators') >= Len(iterators)
     /\ \A k \in 1..Len(iterators) :
          /\ iterators'[k] = iterators[k] \/ lastOp' = Op("next", NoKey, k, "")
          /\ iterators'[k].itemKind = iterators[k].itemKind
          /\ iterators'[k].iteratedObject = iterators[k].iteratedObject
     /\ Len(iterators') > Len(iterators) =>
          /\ Len(iterators') = Len(iterators) + 1
          /\ iterators'[Len(iterators')].nextIndex = 0
          /\ lastOp'.op = "call"
          /\ lastResult'.value = ObjectValue("BytesIterator", Len(iterators'))]_vars

\* two iterators of different kinds over a buffer of MaxLen bytes, the
\* second one made through the iterator symbol after the first had
\* already stepped: the first has reached the end, the second has yielded
\* one item, and the last call was a next() on the second
C25_Witness ==
  /\ Len(bytesData) = MaxLen
  /\ Len(iterators) >= 2
  /\ iterators[1].itemKind # iterators[2].itemKind
  /\ iterHist[2].via = SymKey("iterator")
  /\ iterators[1].nextIndex = MaxLen /\ iterHist[1].dones >= 1
  /\ iterators[2].nextIndex = 1
  /\ lastOp = Op("next", NoKey, 2, "")

\* C26: a read whose key is a symbol other than the iterator symbol
\* succeeds with no descriptor; it is answered by the symbol step, reads
\* nothing of the buffer and does not end the process.
C26_OtherSymbolsAbsent ==
  (lastOp.op = "get" /\ lastOp.id.t = "sym" /\ lastOp.id.s # "iterator") =>
    /\ lastResult.ok
    /\ lastResult.desc = Nothing
    /\ lastResult.by = "symbol"
    /\ ~lastResult.oob
    /\ ~aborted

\* the toStringTag symbol has been read on a proxy of a non-empty buffer
\* whose wrapped object has attributes, and no descriptor came back
C26_Witness ==
  /\ lastOp = Op("get", SymKey("toStringTag"), 0, "")
  /\ self.tp_name = LongTypeName
  /\ Len(bytesData) = MaxLen
  /\ ~lastResult.desc.some

=============================================================================
